---- MODULE Spec2Model ----
(***************************************************************************)
(* Model of src/prompt.ts: the config loader that runs at module load, the *)
(* error-log reader, the prompt builder, the provider dispatcher with its  *)
(* two backends, and the provider getter/setter.                           *)
(*                                                                         *)
(* JavaScript runs each synchronous stretch of code to completion, so one  *)
(* action is one such stretch: a call of an exported operation up to its   *)
(* first await (or its return), and the continuation after each await.     *)
(* Strings whose content the code inspects are sequences of one-character  *)
(* strings; a prompt is a sequence of tokens.                              *)
(***************************************************************************)
EXTENDS Integers, Sequences, FiniteSets, TLC

VARIABLES
    pc,              \* "load" before the module body ran, then "running" or "exited"
    exitCode,        \* argument of process.exit, 0 while the process lives
    cfgFile,         \* ~/.t.env on disk
    config,          \* let config: Config (line 32)
    currentProvider, \* let currentProvider (line 29)
    logFile,         \* ~/.t_error on disk
    errorPrompt,     \* let errorPrompt: CommandLog[] (line 27)
    calls,           \* the generate calls suspended on an await
    last             \* what the latest step did, as its caller observes it

vars == <<pc, exitCode, cfgFile, config, currentProvider, logFile, errorPrompt, calls, last>>

-----------------------------------------------------------------------------
(* Bounds *)

MaxTextLen == 3     \* longest model response explored in full by SpecReply
MaxLogLen == 2      \* most entries in the error log
MaxRawLen == 2      \* longest non-JSON content of the error log

CallIds == {"c1", "c2"}

-----------------------------------------------------------------------------
(* Strings *)

Chars == {"a", " ", "\n"}
Whitespace == {" ", "\n"}

RECURSIVE SeqsUpTo(_, _)
SeqsUpTo(S, n) ==
    IF n = 0 THEN {<<>>}
    ELSE LET shorter == SeqsUpTo(S, n - 1)
         IN shorter \cup {Append(s, x) : s \in {t \in shorter : Len(t) = n - 1}, x \in S}

\* the literal "3d8a19a704" (lines 72, 75, 102, 105, 121, 130, 140)
Sentinel == <<"3", "d", "8", "a", "1", "9", "a", "7", "0", "4">>

\* String.prototype.split("\n")[0]: the text before the first newline
RECURSIVE FirstLine(_)
FirstLine(s) ==
    IF s = <<>> \/ Head(s) = "\n" THEN <<>>
    ELSE <<Head(s)>> \o FirstLine(Tail(s))

RECURSIVE TrimStart(_)
TrimStart(s) ==
    IF s # <<>> /\ Head(s) \in Whitespace THEN TrimStart(Tail(s)) ELSE s

RECURSIVE TrimEnd(_)
TrimEnd(s) ==
    IF s # <<>> /\ s[Len(s)] \in Whitespace THEN TrimEnd(SubSeq(s, 1, Len(s) - 1)) ELSE s

\* String.prototype.trim
Trim(s) == TrimEnd(TrimStart(s))

\* a || "3d8a19a704" on a string: the empty string is falsy
OrSentinel(s) == IF s = <<>> THEN Sentinel ELSE s

-----------------------------------------------------------------------------
(* The config file and the in-memory config record *)

Providers == {"gemini", "azure"}

\* current_provider as a JSON document can hold it: absent, or a tag
FileProviders == {"absent"} \cup Providers

Credentials ==
    { [gemini_apiKey |-> "gk1", azure_endpoint |-> "https://a1/",
       azure_apiKey |-> "ak1", azure_deploymentName |-> "d1"],
      [gemini_apiKey |-> "gk2", azure_endpoint |-> "https://a2/",
       azure_apiKey |-> "ak2", azure_deploymentName |-> "d2"] }

NoCredentials ==
    [gemini_apiKey |-> "", azure_endpoint |-> "", azure_apiKey |-> "", azure_deploymentName |-> ""]

CfgFileOf(state, cred, prov) ==
    [state |-> state, cred |-> cred, current_provider |-> prov]

CfgMissing == CfgFileOf("missing", NoCredentials, "absent")
CfgMalformed == CfgFileOf("malformed", NoCredentials, "absent")
CfgJson == {CfgFileOf("json", c, p) : c \in Credentials, p \in FileProviders}
CfgFiles == {CfgMissing, CfgMalformed} \cup CfgJson

ConfigUnset == [loaded |-> FALSE, cred |-> NoCredentials, current_provider |-> "absent"]

-----------------------------------------------------------------------------
(* The error log *)

Entries ==
    { [cmd |-> "ls foo", err |-> ""],
      [cmd |-> "rm bar", err |-> "no such file"] }

RawChars == {"x", " ", "\n"}

LogFileOf(exists, kind, text, isArray, items) ==
    [exists |-> exists, kind |-> kind, text |-> text, isArray |-> isArray, items |-> items]

LogMissing == LogFileOf(FALSE, "text", <<>>, FALSE, <<>>)
\* content that is no JSON document: blank, or some text JSON.parse rejects
LogRaw(n) == {LogFileOf(TRUE, "text", t, FALSE, <<>>) : t \in SeqsUpTo(RawChars, n)}
\* a JSON array of entries
LogArrays(n) == {LogFileOf(TRUE, "json", <<>>, TRUE, a) : a \in SeqsUpTo(Entries, n)}
\* a JSON document that is no array
LogObject == LogFileOf(TRUE, "json", <<>>, FALSE, <<>>)

ErrorPromptUnset == [defined |-> FALSE, isArray |-> FALSE, items |-> <<>>]

\* JSON.stringify of one log entry
JSONstringify(e) == <<"{\"cmd\":", e.cmd, ",\"err\":", e.err, "}">>

instructionForHm == <<"instructionForHm">>
instructionForHp == <<"instructionForHp">>

Messages == {<<"list", "files">>}

-----------------------------------------------------------------------------
(* What a backend can answer *)

ReplyOf(kind, text) == [kind |-> kind, text |-> text]
NoReply == ReplyOf("none", <<>>)

\* await model.generateContent(prompt), then result.response?.text():
\* a rejection or a throwing text(), a result without response, or a text
GeminiReplies(texts) ==
    {ReplyOf("throw", <<>>), ReplyOf("noResponse", <<>>)} \cup {ReplyOf("text", t) : t \in texts}

\* await fetch(...): a rejection, a response that is not ok, or an ok response
FetchReplies == {ReplyOf("throw", <<>>), ReplyOf("notOk", <<>>), ReplyOf("ok", <<>>)}

\* await response.json(): a body that is no JSON, a document without choices,
\* with an empty choices array, with a first choice without message, with a
\* message without content, or with a content string
JsonReplies(texts) ==
    {ReplyOf(k, <<>>) : k \in {"throw", "noChoices", "emptyChoices", "noMessage", "noContent"}}
        \cup {ReplyOf("content", t) : t \in texts}

-----------------------------------------------------------------------------
(* The code's decisions, as operators *)

\* mutant: the existsSync test of line 36 dropped, a missing file read as {}
ConfigLoadsWithoutFile(file) == file.state # "malformed"

\* lines 36-43: the file exists and JSON.parse accepts it
ConfigLoads(file) == file.state = "json"

\* line 40: config.current_provider || 'gemini'
LoadedProvider(prov) == IF prov = "absent" THEN "gemini" ELSE prov

\* mutant: the branches of the conditional of line 110 swapped
BackendSwapped(provider) == IF provider = "azure" THEN "gemini" ELSE "azure"

\* line 110: currentProvider === 'azure' ? callAzureOpenAI : callGemini
Backend(provider) == IF provider = "azure" THEN "azure" ELSE "gemini"

\* mutant: line 72 without its || "3d8a19a704"
GeminiResultNoFallback(reply) ==
    CASE reply.kind = "text" -> Trim(FirstLine(reply.text))
      [] OTHER -> Sentinel

\* lines 70-75
GeminiResult(reply) ==
    CASE reply.kind = "text" -> OrSentinel(Trim(FirstLine(reply.text)))
      [] OTHER -> Sentinel

\* lines 97-99 and 103-105: a response that is not ok throws into the catch
FetchContinues(reply) == reply.kind = "ok"

\* lines 101-105
AzureResult(body) ==
    CASE body.kind = "content" -> OrSentinel(body.text)
      [] OTHER -> Sentinel

\* line 119: data.trim() === ""
IsBlank(data) == Trim(data) = <<>>

\* line 123: JSON.parse(data) accepts the content
LogParses(file) == file.kind = "json"

\* lines 117-124: errorPrompt after the read, given that the call got past line 122
ReadErrorPrompt(file, ep) ==
    IF file.exists
    THEN [defined |-> TRUE, isArray |-> file.isArray, items |-> file.items]
    ELSE ep

\* mutant: at(0) for at(-1)
FirstEntry(items) == items[1]

\* Array.prototype.at(-1) on a non-empty array
LastEntry(items) == items[Len(items)]

\* line 126: errorPrompt.at(-1) throws a TypeError unless errorPrompt is an array
AtThrows(ep) == ~ep.defined \/ ~ep.isArray

\* line 126, for an array: JSON.stringify(undefined) is undefined, which the
\* template literal prints as "undefined"
HmPrompt(ep) ==
    instructionForHm \o <<"\n">> \o
        (IF ep.items = <<>> THEN <<"undefined">> ELSE JSONstringify(LastEntry(ep.items)))

\* line 136
HpPrompt(message) == instructionForHp \o <<"\n">> \o message

\* mutant: a blank file treated like a missing one (no return at line 121)
HmReadBlankAsMissing(file, ep) ==
    IF file.exists /\ file.kind = "text" /\ IsBlank(file.text)
    THEN [errorPrompt |-> ep, reachesCallAI |-> ~AtThrows(ep)]
    ELSE IF file.exists /\ ~LogParses(file)
    THEN [errorPrompt |-> ep, reachesCallAI |-> FALSE]
    ELSE LET read == ReadErrorPrompt(file, ep)
         IN [errorPrompt |-> read, reachesCallAI |-> ~AtThrows(read)]

\* lines 116-126: errorPrompt after the synchronous part of the call, and
\* whether the call gets to callAI (line 127) rather than to a return of the
\* sentinel (line 121, or line 130 after JSON.parse or at(-1) threw)
HmRead(file, ep) ==
    IF file.exists /\ file.kind = "text" /\ IsBlank(file.text)
    THEN [errorPrompt |-> ep, reachesCallAI |-> FALSE]
    ELSE IF file.exists /\ ~LogParses(file)
    THEN [errorPrompt |-> ep, reachesCallAI |-> FALSE]
    ELSE LET read == ReadErrorPrompt(file, ep)
         IN [errorPrompt |-> read, reachesCallAI |-> ~AtThrows(read)]

\* mutant: line 149 missing, the record written keeps its old selection
ConfigToWriteStale(cfg, provider) == cfg

\* lines 149-150: the record JSON.stringify(config) serialises
ConfigToWrite(cfg, provider) == [cfg EXCEPT !.current_provider = provider]

\* mutant: the file on disk patched with the selection instead of overwritten
WrittenFilePatched(file, cfg, w) ==
    CASE w = "ok" /\ file.state = "json" -> [file EXCEPT !.current_provider = cfg.current_provider]
      [] w = "ok" /\ file.state # "json" -> CfgFileOf("json", cfg.cred, cfg.current_provider)
      [] w = "openFails" -> file
      [] OTHER -> CfgMalformed

\* line 150: the file after fs.writeFileSync, which opens with truncation and
\* then writes; it can fail before the file is opened or after it is truncated
WrittenFile(file, cfg, w) ==
    CASE w = "ok" -> CfgFileOf("json", cfg.cred, cfg.current_provider)
      [] w = "openFails" -> file
      [] OTHER -> CfgMalformed

WriteOutcomes == {"ok", "openFails", "writeFails"}

-----------------------------------------------------------------------------
(* State *)

IdleCall == [pc |-> "idle", op |-> "none", prompt |-> <<>>, invoked |-> <<>>, logExisted |-> FALSE]

Ev(op, outcome) ==
    [op |-> op, outcome |-> outcome, call |-> "none", arg |-> "none", prov |-> "none",
     value |-> <<>>, reply |-> NoReply, invoked |-> <<>>, prompt |-> <<>>, logExisted |-> FALSE]

InitWith(cfgs, logs) ==
    /\ pc = "load"
    /\ exitCode = 0
    /\ cfgFile \in cfgs
    /\ config = ConfigUnset
    /\ currentProvider = "gemini"
    /\ logFile \in logs
    /\ errorPrompt = ErrorPromptUnset
    /\ calls = [c \in CallIds |-> IdleCall]
    /\ last = Ev("init", "none")

-----------------------------------------------------------------------------
(* Module load, lines 32-47 *)

LoadConfig ==
    /\ pc = "load"
    /\ IF ConfigLoads(cfgFile)
       THEN /\ config' = [loaded |-> TRUE, cred |-> cfgFile.cred,
                          current_provider |-> cfgFile.current_provider]
            /\ currentProvider' = LoadedProvider(cfgFile.current_provider)
            /\ pc' = "running"
            /\ exitCode' = exitCode
            /\ last' = Ev("load", "return")
       ELSE /\ pc' = "exited"
            /\ exitCode' = 1
            /\ last' = Ev("load", "exit")
            /\ UNCHANGED <<config, currentProvider>>
    /\ UNCHANGED <<cfgFile, logFile, errorPrompt, calls>>

-----------------------------------------------------------------------------
(* callAI, lines 109-113, up to the backend's first await: the provider is  *)
(* read and one backend is entered                                          *)

Dispatch(c, op, prompt, logExisted) ==
    LET backend == Backend(currentProvider)
        call == [pc |-> IF backend = "azure" THEN "fetch" ELSE "generateContent",
                 op |-> op, prompt |-> prompt, invoked |-> <<backend>>,
                 logExisted |-> logExisted]
    IN /\ calls' = [calls EXCEPT ![c] = call]
       /\ last' = [Ev(op, "pending") EXCEPT !.call = c, !.prompt = prompt,
                       !.invoked = call.invoked, !.logExisted = logExisted]

\* a generate operation returning without having reached callAI
ReturnEarly(op, logExisted) ==
    /\ last' = [Ev(op, "return") EXCEPT !.value = Sentinel, !.logExisted = logExisted]
    /\ calls' = calls

\* a suspended call resolving with value
Resolve(c, value, reply) ==
    /\ last' = [Ev(calls[c].op, "return") EXCEPT !.call = c, !.value = value, !.reply = reply,
                    !.invoked = calls[c].invoked, !.prompt = calls[c].prompt,
                    !.logExisted = calls[c].logExisted]
    /\ calls' = [calls EXCEPT ![c] = IdleCall]

(* generateCommandForHm, lines 115-132, up to the await in callAI *)
GenerateCommandForHm(c) ==
    LET read == HmRead(logFile, errorPrompt) IN
    /\ pc = "running"
    /\ calls[c].pc = "idle"
    /\ errorPrompt' = read.errorPrompt
    /\ IF read.reachesCallAI
       THEN Dispatch(c, "Hm", HmPrompt(read.errorPrompt), logFile.exists)
       ELSE ReturnEarly("Hm", logFile.exists)
    /\ UNCHANGED <<pc, exitCode, cfgFile, config, currentProvider, logFile>>

(* generateCommandForHp, lines 134-142, up to the await in callAI *)
GenerateCommandForHp(c, message) ==
    /\ pc = "running"
    /\ calls[c].pc = "idle"
    /\ Dispatch(c, "Hp", HpPrompt(message), FALSE)
    /\ UNCHANGED <<pc, exitCode, cfgFile, config, currentProvider, logFile, errorPrompt>>

(* callGemini after the await of line 70, and the callers' return *)
GeminiReturn(c, reply) ==
    /\ pc = "running"
    /\ calls[c].pc = "generateContent"
    /\ Resolve(c, GeminiResult(reply), reply)
    /\ UNCHANGED <<pc, exitCode, cfgFile, config, currentProvider, logFile, errorPrompt>>

(* callAzureOpenAI after the await of line 81, up to the await of line 101 *)
AzureFetchReturn(c, reply) ==
    /\ pc = "running"
    /\ calls[c].pc = "fetch"
    /\ IF FetchContinues(reply)
       THEN /\ calls' = [calls EXCEPT ![c].pc = "json"]
            /\ last' = [Ev(calls[c].op, "pending") EXCEPT !.call = c, !.reply = reply,
                            !.invoked = calls[c].invoked, !.prompt = calls[c].prompt,
                            !.logExisted = calls[c].logExisted]
       ELSE Resolve(c, Sentinel, reply)
    /\ UNCHANGED <<pc, exitCode, cfgFile, config, currentProvider, logFile, errorPrompt>>

(* callAzureOpenAI after the await of line 101, and the callers' return *)
AzureJsonReturn(c, body) ==
    /\ pc = "running"
    /\ calls[c].pc = "json"
    /\ Resolve(c, AzureResult(body), body)
    /\ UNCHANGED <<pc, exitCode, cfgFile, config, currentProvider, logFile, errorPrompt>>

-----------------------------------------------------------------------------
(* Provider state, lines 144-151 *)

GetCurrentProvider ==
    /\ pc = "running"
    /\ last' = [Ev("get", "return") EXCEPT !.prov = currentProvider]
    /\ UNCHANGED <<pc, exitCode, cfgFile, config, currentProvider, logFile, errorPrompt, calls>>

\* w is what the file system does to the write of line 150
SetProvider(provider, w) ==
    /\ pc = "running"
    /\ currentProvider' = provider
    /\ config' = ConfigToWrite(config, provider)
    /\ cfgFile' = WrittenFile(cfgFile, config', w)
    /\ last' = [Ev("set", IF w = "ok" THEN "return" ELSE "throw") EXCEPT !.arg = provider]
    /\ UNCHANGED <<pc, exitCode, logFile, errorPrompt, calls>>

-----------------------------------------------------------------------------
(* The environment: both files belong to the user and to other programs *)

ExternalLogWrite(file) ==
    /\ pc = "running"
    /\ file # logFile
    /\ logFile' = file
    /\ last' = Ev("env", "none")
    /\ UNCHANGED <<pc, exitCode, cfgFile, config, currentProvider, errorPrompt, calls>>

ExternalConfigWrite(file) ==
    /\ pc = "running"
    /\ file # cfgFile
    /\ cfgFile' = file
    /\ last' = Ev("env", "none")
    /\ UNCHANGED <<pc, exitCode, config, currentProvider, logFile, errorPrompt, calls>>

-----------------------------------------------------------------------------
(* Spec: every operation, on sample files and sample answers *)

SampleTexts == {<<>>, <<"a">>, <<" ", "a", "\n", "a">>}

SampleLogs ==
    { LogMissing,
      LogFileOf(TRUE, "text", <<" ">>, FALSE, <<>>),
      LogFileOf(TRUE, "json", <<>>, TRUE,
                <<[cmd |-> "ls foo", err |-> ""], [cmd |-> "rm bar", err |-> "no such file"]>>) }

Init == InitWith(CfgFiles, SampleLogs)

Next ==
    \/ LoadConfig
    \/ \E c \in CallIds : GenerateCommandForHm(c)
    \/ \E c \in CallIds, m \in Messages : GenerateCommandForHp(c, m)
    \/ \E c \in CallIds, r \in GeminiReplies(SampleTexts) : GeminiReturn(c, r)
    \/ \E c \in CallIds, r \in FetchReplies : AzureFetchReturn(c, r)
    \/ \E c \in CallIds, r \in JsonReplies(SampleTexts) : AzureJsonReturn(c, r)
    \/ GetCurrentProvider
    \/ \E p \in Providers, w \in WriteOutcomes : SetProvider(p, w)
    \/ \E f \in SampleLogs : ExternalLogWrite(f)
    \/ \E f \in CfgFiles : ExternalConfigWrite(f)

Spec == Init /\ [][Next]_vars

-----------------------------------------------------------------------------
(* SpecLog: generateCommandForHm on every error log within the bounds *)

AllLogs == {LogMissing, LogObject} \cup LogRaw(MaxRawLen) \cup LogArrays(MaxLogLen)

LogCfgs == {CfgFileOf("json", c, p) : c \in {CHOOSE x \in Credentials : TRUE}, p \in Providers}

LogTexts == {<<"a">>}

InitLog == InitWith(LogCfgs, AllLogs)

\* one call at a time here; Spec interleaves two
NextLog ==
    \/ LoadConfig
    \/ GenerateCommandForHm("c1")
    \/ \E r \in GeminiReplies(LogTexts) : GeminiReturn("c1", r)
    \/ \E r \in FetchReplies : AzureFetchReturn("c1", r)
    \/ \E r \in JsonReplies(LogTexts) : AzureJsonReturn("c1", r)
    \/ \E f \in AllLogs : ExternalLogWrite(f)

SpecLog == InitLog /\ [][NextLog]_vars

-----------------------------------------------------------------------------
(* SpecReply: both backends on every answer within the bounds *)

AllTexts == SeqsUpTo(Chars, MaxTextLen)

InitReply == InitWith(LogCfgs, {f \in SampleLogs : f.kind = "json"})

NextReply ==
    \/ LoadConfig
    \/ GenerateCommandForHm("c1")
    \/ \E m \in Messages : GenerateCommandForHp("c1", m)
    \/ \E r \in GeminiReplies(AllTexts) : GeminiReturn("c1", r)
    \/ \E r \in FetchReplies : AzureFetchReturn("c1", r)
    \/ \E r \in JsonReplies(AllTexts) : AzureJsonReturn("c1", r)

SpecReply == InitReply /\ [][NextReply]_vars

-----------------------------------------------------------------------------
(* Properties.  last labels the step that led to the current state, so a    *)
(* state predicate on last speaks of the state right after that step.       *)

GenerateOps == {"Hm", "Hp"}

\* the latest step was a call of generateCommandForHm (not a continuation)
HmJustCalled == last.op = "Hm" /\ last.reply = NoReply

\* the latest step made a generate operation return to its caller
GenerateReturned == last.op \in GenerateOps /\ last.outcome = "return"

FailureKinds ==
    {"throw", "noResponse", "notOk", "noChoices", "emptyChoices", "noMessage", "noContent"}

\* the backend's answer was a failure: an error, a status that is not ok, a
\* body without usable choices, or an empty text
BackendFailed(reply) ==
    \/ reply.kind \in FailureKinds
    \/ reply.kind \in {"text", "content"} /\ reply.text = <<>>

Range(s) == {s[i] : i \in 1..Len(s)}

IsInfix(sub, s) ==
    \E i \in 0..(Len(s) - Len(sub)) : SubSeq(s, i + 1, i + Len(sub)) = sub

\* C1: whenever a backend answered with a failure (a thrown error, a status
\* that is not 2xx, a body without usable choices, an empty response), under
\* either provider, the call returns exactly the sentinel and does not throw.
C1_FailureReturnsSentinel ==
    (last.op \in GenerateOps /\ BackendFailed(last.reply))
        => (last.outcome = "return" /\ last.value = Sentinel)

C1_Witness ==
    /\ GenerateReturned
    /\ last.invoked = <<"azure">>
    /\ last.reply.kind = "notOk"
    /\ last.value = Sentinel

\* C2: a config file that is missing or is no JSON makes module load end the
\* process with a non-zero exit status; an exited process has built no prompt,
\* has called no backend, and stays exited.
C2_BadConfigExits ==
    /\ [][(pc = "load" /\ cfgFile.state # "json") => (pc' = "exited" /\ exitCode' # 0)]_vars
    /\ [](pc = "exited" =>
            /\ exitCode # 0
            /\ last.op = "load"
            /\ \A c \in CallIds : calls[c] = IdleCall)
    /\ [][pc = "exited" => (pc' = "exited" /\ calls' = calls)]_vars

C2_Witness == pc = "exited" /\ exitCode = 1 /\ cfgFile.state = "missing"

\* C3: right after a setProvider(p) that returned, the in-memory selection
\* (what getCurrentProvider returns) is p and the provider field of the config
\* file is p, whatever ran before; a getCurrentProvider that runs next returns p.
C3_SetThenGet ==
    /\ []((last.op = "set" /\ last.outcome = "return") =>
            /\ currentProvider = last.arg
            /\ cfgFile.state = "json"
            /\ cfgFile.current_provider = last.arg)
    /\ [][(last.op = "set" /\ last.outcome = "return" /\ last'.op = "get")
            => last'.prov = last.arg]_vars

C3_Witness ==
    /\ last.op = "set" /\ last.outcome = "return" /\ last.arg = "azure"
    /\ currentProvider = "azure"
    /\ cfgFile.current_provider = "azure"
    /\ \E c \in CallIds : calls[c].invoked = <<"gemini">>

\* C4: a generateCommandForHm that was called while the error log was missing
\* returns the sentinel.
C4_MissingLogReturnsSentinel ==
    (last.op = "Hm" /\ last.outcome = "return" /\ ~last.logExisted) => last.value = Sentinel

\* C5: when the model's answer is a text of several lines (the first of them
\* not blank), the string returned is its first line, trimmed, whichever
\* provider served the call.
C5_FirstLineTrimmed ==
    (GenerateReturned /\ last.reply.kind \in {"text", "content"}
        /\ "\n" \in Range(last.reply.text) /\ Trim(FirstLine(last.reply.text)) # <<>>)
        => last.value = Trim(FirstLine(last.reply.text))

\* C6: no exported operation raises an exception to its caller.
C6_NoOperationThrows == last.outcome # "throw"

\* C7: called on an error log that exists and is empty or whitespace-only,
\* generateCommandForHm returns the sentinel at once: no prompt is built and no
\* backend is entered, whatever errorPrompt holds.
C7_BlankLogReturnsSentinel ==
    (HmJustCalled /\ logFile.exists /\ logFile.kind = "text" /\ Trim(logFile.text) = <<>>)
        => /\ last.outcome = "return"
           /\ last.value = Sentinel
           /\ last.prompt = <<>>
           /\ last.invoked = <<>>

C7_Witness ==
    /\ HmJustCalled /\ last.outcome = "return"
    /\ logFile.exists /\ logFile.text = <<" ">>
    /\ errorPrompt.defined /\ errorPrompt.isArray /\ errorPrompt.items # <<>>

\* C8: called on an error log holding a non-empty array, generateCommandForHm
\* enters the backend with the instruction text, a newline and the JSON of the
\* last element of that file; no other entry of the file is in the prompt.
C8_PromptHoldsLastEntry ==
    (HmJustCalled /\ logFile.exists /\ logFile.kind = "json" /\ logFile.isArray
        /\ logFile.items # <<>>)
        => LET items == logFile.items
               prompt == instructionForHm \o <<"\n">> \o JSONstringify(items[Len(items)])
           IN /\ last.outcome = "pending"
              /\ last.prompt = prompt
              /\ calls[last.call].prompt = prompt
              /\ \A i \in 1..Len(items) :
                    items[i] # items[Len(items)] => ~IsInfix(JSONstringify(items[i]), last.prompt)

C8_Witness ==
    /\ HmJustCalled /\ last.outcome = "pending"
    /\ logFile.kind = "json" /\ Len(logFile.items) = 2
    /\ logFile.items[1] # logFile.items[2]
    /\ IsInfix(JSONstringify(logFile.items[2]), last.prompt)

\* C9: a setProvider that returned leaves in the config file the credentials of
\* the in-memory record, which are those of the file at load and never change
\* afterwards, with the new selection; only setProvider and
\* the environment write the config file, and only the environment writes the
\* error log.
C9_OnlyProviderRewritten ==
  /\ []((last.op = "load" /\ last.outcome = "return") => config.cred = cfgFile.cred)
  /\
    [][ /\ (last'.op # "env" => logFile' = logFile)
        /\ (last'.op \notin {"env", "set"} => cfgFile' = cfgFile)
        /\ (pc = "running" => config'.cred = config.cred)
        /\ ((last'.op = "set" /\ last'.outcome = "return") =>
                /\ cfgFile'.state = "json"
                /\ cfgFile'.cred = config.cred
                /\ cfgFile'.current_provider = last'.arg) ]_vars

C9_Witness ==
    /\ last.op = "set" /\ last.outcome = "return"
    /\ cfgFile.state = "json" /\ cfgFile.cred = config.cred
    /\ cfgFile.current_provider = "gemini"

\* C10: a generate call that reaches dispatch enters one backend once: the
\* HTTP backend iff currentProvider is "azure" in the dispatching step, else
\* the generative-model backend, which is also what a config without provider
\* field selects; while the call is suspended no step (a setProvider included)
\* changes or repeats its backend, and it returns having entered just that one.
C10_OneBackendOnce ==
    /\ [](\A c \in CallIds : calls[c].pc # "idle" =>
            /\ Len(calls[c].invoked) = 1
            /\ (calls[c].pc \in {"fetch", "json"} <=> calls[c].invoked = <<"azure">>)
            /\ (calls[c].pc = "generateContent" <=> calls[c].invoked = <<"gemini">>))
    /\ []((last.op = "load" /\ last.outcome = "return" /\ config.current_provider = "absent")
            => currentProvider = "gemini")
    /\ [][\A c \in CallIds :
            /\ (calls[c].pc = "idle" /\ calls'[c].pc # "idle") =>
                    calls'[c].invoked =
                        <<IF currentProvider = "azure" THEN "azure" ELSE "gemini">>
            /\ (calls[c].pc # "idle" /\ calls'[c].pc # "idle") =>
                    calls'[c].invoked = calls[c].invoked
            /\ (calls[c].pc # "idle" /\ calls'[c].pc = "idle") =>
                    (last'.call = c /\ last'.outcome = "return"
                        /\ last'.invoked = calls[c].invoked) ]_vars

C10_Witness ==
    /\ last.op = "set" /\ last.arg = "azure" /\ currentProvider = "azure"
    /\ \E c \in CallIds : calls[c].pc = "generateContent" /\ calls[c].invoked = <<"gemini">>
    /\ \E c \in CallIds : calls[c].pc = "idle"

====
